---------------------------- MODULE Spec2Model ----------------------------
(***************************************************************************)
(* A model of utils.py: the attribute matcher `get`, the documentation     *)
(* registry `Docs` and the error-handling decorator of `ErrorHandler`.     *)
(*                                                                         *)
(* Three specifications share the variables below; each one drives one     *)
(* component and leaves the other components' variables alone.             *)
(*   SpecGet  : get(iterable, conditions)                                  *)
(*   SpecDocs : Docs.register_doc and calls of the functions it returns    *)
(*   SpecErr  : ErrorHandler.error_handling, subclassing, calls            *)
(***************************************************************************)
EXTENDS Integers, Sequences, FiniteSets, TLC

VARIABLES
    items,        \* get: the iterable, a sequence of candidate object ids
    conditions,   \* get: the conditions dict, in insertion order: <<key, expected>>
    getPc,        \* get: "ready" before the call, "done" after it
    getResult,    \* get: how the call ended
    classes,      \* ErrorHandler and its subclasses: base class and own on_error
    wrapped,      \* the function the name `test` is bound to after decoration
    call,         \* the latest call of the wrapper, from entry to exit
    data,         \* Docs: the registry's dict, qualified name -> Content
    decorations,  \* Docs: the applications of register_doc's decorator, in order
    docCall       \* Docs: the latest call of a function register_doc returned

getVars == <<items, conditions, getPc, getResult>>
errVars == <<classes, wrapped, call>>
docVars == <<data, decorations, docCall>>

vars == <<items, conditions, getPc, getResult, classes, wrapped, call,
          data, decorations, docCall>>

(***************************************************************************)
(* Bounds of the model.                                                    *)
(***************************************************************************)
MaxItems == 2
MaxConds == 2
MaxArgs  == 2
MaxDecorations == 3

(***************************************************************************)
(* Python values.  Plain integers stand for themselves; instances of       *)
(* user classes are object ids (compared by identity, the default __eq__). *)
(***************************************************************************)
None == 0

\* The id copy.copy gives the fresh shallow copy of object o.
CopyOffset == 1000

\* Attribute names and dict keys are strings: sequences of characters.
Str_a == <<"a">>
Str_b == <<"b">>
Str_c == <<"c">>
Str_d == <<"d">>

\* The objects of the docstring sample, A(B(1, 2), 3) and A(B(4, 5), 6),
\* then an object that has no attribute a, and an A whose a is an int.
Heap ==
    (201 :> (Str_c :> 1 @@ Str_d :> 2)) @@
    (202 :> (Str_c :> 4 @@ Str_d :> 5)) @@
    (101 :> (Str_a :> 201 @@ Str_b :> 3)) @@
    (102 :> (Str_a :> 202 @@ Str_b :> 6)) @@
    (103 :> (Str_b :> 3)) @@
    (104 :> (Str_a :> 1 @@ Str_b :> 6))

Candidates == {101, 102, 103, 104}

\* copy(item): a new object with the same attribute values (shallow).
copy(o) == o + CopyOffset

\* The __dict__ of a value: of an object, of a copy of one, or none (an int).
AttrsOf(o) ==
    IF o \in DOMAIN Heap THEN Heap[o]
    ELSE IF (o - CopyOffset) \in DOMAIN Heap THEN Heap[o - CopyOffset]
    ELSE <<>>

\* getattr(var, attr), two arguments: the value, or AttributeError.
\* (getattr_default is the three-argument form getattr(var, attr, None).)
getattr_default(var, attr) ==
    IF attr \in DOMAIN AttrsOf(var)
    THEN [ok |-> TRUE, val |-> AttrsOf(var)[attr]]
    ELSE [ok |-> TRUE, val |-> None]

getattr(var, attr) ==
    IF attr \in DOMAIN AttrsOf(var)
    THEN [ok |-> TRUE, val |-> AttrsOf(var)[attr]]
    ELSE [ok |-> FALSE, val |-> None]

\* k.split('.'): the pieces between the dots; "" gives [""], "a." gives ["a", ""].
RECURSIVE split(_)
split(k) ==
    IF \A i \in 1..Len(k) : k[i] # "."
    THEN <<k>>
    ELSE LET i == CHOOSE n \in 1..Len(k) :
                      k[n] = "." /\ \A m \in 1..(n - 1) : k[m] # "."
         IN  <<SubSeq(k, 1, i - 1)>> \o split(SubSeq(k, i + 1, Len(k)))

\* for attr in k.split('.'): var = getattr(var, attr)
RECURSIVE walk(_, _)
walk(var, attrs) ==
    IF attrs = <<>>
    THEN [ok |-> TRUE, val |-> var]
    ELSE LET r == getattr(var, Head(attrs))
         IN  IF r.ok THEN walk(r.val, Tail(attrs)) ELSE r

\* The inner loop: one flag per condition, in insertion order; the first
\* AttributeError ends it.
RECURSIVE flagsOf(_, _)
flagsOf(item, conds) ==
    IF conds = <<>>
    THEN [ok |-> TRUE, flags |-> <<>>]
    ELSE LET k    == Head(conds)[1]
             v    == Head(conds)[2]
             r    == walk(copy(item), split(k))
             rest == flagsOf(item, Tail(conds))
         IN  IF ~r.ok THEN [ok |-> FALSE, flags |-> <<>>]
             ELSE IF ~rest.ok THEN rest
             ELSE [ok |-> TRUE, flags |-> <<r.val = v>> \o rest.flags]

any(flags) == \E i \in 1..Len(flags) : flags[i]

all(flags) == \A i \in 1..Len(flags) : flags[i]

Return(v) == [kind |-> "return", value |-> v, error |-> ""]
Raise(e)  == [kind |-> "raise", value |-> None, error |-> e]

\* return item
ReturnItem(item) == Return(item)

RECURSIVE get(_, _)
get(iterable, conds) ==
    IF iterable = <<>>
    THEN Return(None)
    ELSE LET item == Head(iterable)
             fl   == flagsOf(item, conds)
         IN  IF ~fl.ok THEN Raise("AttributeError")
             ELSE IF all(fl.flags) THEN ReturnItem(item)
             ELSE get(Tail(iterable), conds)


(***************************************************************************)
(* Content and Docs.                                                       *)
(*                                                                         *)
(* Function objects are ids.  The functions the program defines all have   *)
(* the bare name func: two at module level in different modules, and two   *)
(* methods of different classes, one of them without a doc string.  Every  *)
(* application of the decorator makes one more function object, `wrapper`. *)
(***************************************************************************)
\* None, where the other values are strings.
NoDoc == "None"

Functions ==
    (1 :> [module |-> "m1", scope |-> <<>>,    name |-> "func", doc |-> "D1"]) @@
    (2 :> [module |-> "m2", scope |-> <<>>,    name |-> "func", doc |-> "D2"]) @@
    (3 :> [module |-> "m1", scope |-> <<"K">>, name |-> "func", doc |-> "D3"]) @@
    (4 :> [module |-> "m1", scope |-> <<"L">>, name |-> "func", doc |-> NoDoc])

\* The id of the wrapper the k-th application of the decorator returns.
WrapperBase == 10

IsWrapper(f) == f > WrapperBase

\* def wrapper(*args, **kwargs) inside decorator inside Docs.register_doc:
\* a new function, with the name and doc string it is written with.
AttrsOfFunction(f) ==
    IF IsWrapper(f)
    THEN [module |-> "utils",
          scope  |-> <<"Docs", "register_doc", "<locals>", "decorator", "<locals>">>,
          name   |-> "wrapper",
          doc    |-> NoDoc]
    ELSE Functions[f]

\* func.__name__
bare_name(f) == <<AttrsOfFunction(f).name>>

\* func.__qualname__: the path of enclosing classes and functions, then the
\* name; the module is not part of it.
qualname(f) == AttrsOfFunction(f).scope \o <<AttrsOfFunction(f).name>>

\* func.__doc__
doc(f) == AttrsOfFunction(f).doc

\* Content(description=..., extra=...)
Content(description, extra) == [description |-> description, extra |-> extra]

\* self.__data[key] = value
SetItem(d, key, value) ==
    [k \in DOMAIN d \cup {key} |-> IF k = key THEN value ELSE d[k]]

NoDocCall == [done |-> FALSE, wrapper |-> None, arg |-> None, reached |-> None]

DocFuncs == DOMAIN Functions
Extras == {None, 1, 2}

\* The function a wrapper forwards to, in the end.
RECURSIVE Original(_, _)
Original(decs, f) ==
    IF IsWrapper(f) THEN Original(decs, decs[f - WrapperBase].func) ELSE f


(***************************************************************************)
(* ErrorHandler.                                                           *)
(*                                                                         *)
(* Error objects and the function object are ids; an error's type and      *)
(* message are looked up in ErrorObjects.                                  *)
(***************************************************************************)
TestFunc == 801

ErrorObjects ==
    (901 :> [type |-> "ValueError", msg |-> "boom"]) @@
    (902 :> [type |-> "KeyboardInterrupt", msg |-> ""]) @@
    (903 :> [type |-> "RuntimeError", msg |-> "handled"]) @@
    (904 :> [type |-> "TypeError", msg |-> "multiple values for argument"]) @@
    (905 :> [type |-> "TypeError", msg |-> "missing required positional argument"])

\* What the wrapped function raises in a call, when it raises.
FuncErrors == {901, 902}
\* What an overriding on_error raises when it raises a different failure.
OtherError == 903
MultipleValuesError == 904
MissingArgumentError == 905

\* The built-in exception types that derive from Exception;
\* KeyboardInterrupt (like SystemExit) derives from BaseException only.
ExceptionTypes == {"ValueError", "RuntimeError", "TypeError"}

Returns(v) == [kind |-> "return", value |-> v, error |-> None]
Raises(e)  == [kind |-> "raise", value |-> None, error |-> e]

\* except Exception as e
except_Exception(e) == ErrorObjects[e].type \in ExceptionTypes

ClassNames == {"ErrorHandler", "MyErrorHandler"}

\* The on_error functions: ErrorHandler's own, the override of the class
\* docstring sample (it takes self and does nothing), and overrides that
\* raise a different failure, written with either parameter list.
OnErrorImpls == {"base", "sample", "raise_other", "sample_raise_other"}

OnErrorParams(impl) ==
    CASE impl = "base"               -> <<"error", "func">>
      [] impl = "raise_other"        -> <<"error", "func">>
      [] impl = "sample"             -> <<"self", "error", "func">>
      [] impl = "sample_raise_other" -> <<"self", "error", "func">>

\* raise error
raise_error(error) == Raises(error)

OnErrorBody(impl, error) ==
    CASE impl = "base"               -> raise_error(error)
      [] impl = "sample"             -> Returns(None)
      [] impl = "raise_other"        -> Raises(OtherError)
      [] impl = "sample_raise_other" -> Raises(OtherError)

Restrict(f, S) == [x \in S |-> f[x]]

Min(a, b) == IF a < b THEN a ELSE b

\* Python's binding of a call's positional and keyword arguments to the
\* parameters (params, *args, **kwargs).
Bind(params, pos, kw) ==
    LET n       == Len(params)
        byPos   == { params[i] : i \in 1..Min(n, Len(pos)) }
        value(name) ==
            LET i == CHOOSE j \in 1..n : params[j] = name
            IN  IF i <= Len(pos) THEN pos[i] ELSE kw[name]
    IN  IF byPos \cap DOMAIN kw # {}
        THEN [ok |-> FALSE, error |-> MultipleValuesError]
        ELSE IF \E i \in (Len(pos) + 1)..n : params[i] \notin DOMAIN kw
        THEN [ok |-> FALSE, error |-> MissingArgumentError]
        ELSE [ok     |-> TRUE,
              self   |-> IF "self" \in byPos \cup DOMAIN kw /\ params[1] = "self"
                         THEN value("self") ELSE None,
              error  |-> value("error"),
              func   |-> value("func"),
              args   |-> SubSeq(pos, n + 1, Len(pos)),
              kwargs |-> Restrict(kw, DOMAIN kw \ { params[i] : i \in 1..n })]

\* The class attribute lookup cls.on_error: the class's own on_error, or
\* the one it inherits.
RECURSIVE Lookup(_, _)
Lookup(table, cls) ==
    IF table[cls].on_error # "inherit"
    THEN table[cls].on_error
    ELSE Lookup(table, table[cls].base)

\* Early binding: on_error resolved once, when the decorator is applied.
lookup_at_decoration(table, w) == w.at_decoration

\* cls.on_error, evaluated in the except clause of each failing call.
lookup_on_error(table, w) == Lookup(table, w.cls)

\* A retrying wrapper: the function is tried again after it fails.
try_func_retry(args, kwargs, outcome) ==
    IF outcome.kind = "raise"
    THEN <<[args |-> args, kwargs |-> kwargs], [args |-> args, kwargs |-> kwargs]>>
    ELSE <<[args |-> args, kwargs |-> kwargs]>>

\* try: return func(*args, **kwargs) -- the invocations of func in one call.
try_func(args, kwargs, outcome) == <<[args |-> args, kwargs |-> kwargs]>>

\* The flag read the other way round: "handle", not "ignore".
not_ignore_exception(w) == ~w.ignore_exception

\* if ignore_exception:
ignore_exception(w) == w.ignore_exception

\* cls.on_error(e, func, *args, **kwargs): the binding, then the body.
call_on_error(impl, e, func, args, kwargs) ==
    LET b == Bind(OnErrorParams(impl), <<e, func>> \o args, kwargs)
    IN  IF ~b.ok
        THEN [hooks |-> <<>>, outcome |-> Raises(b.error)]
        ELSE [hooks   |-> <<[impl   |-> impl,
                             self   |-> b.self,
                             error  |-> b.error,
                             func   |-> b.func,
                             args   |-> b.args,
                             kwargs |-> b.kwargs]>>,
              outcome |-> OnErrorBody(impl, b.error)]

NoCall ==
    [done |-> FALSE, ignore |-> FALSE, at_decoration |-> "base",
     args |-> <<>>, kwargs |-> <<>>,
     func_outcome |-> Returns(None), invoked |-> <<>>, target |-> "none",
     hooks |-> <<>>, outcome |-> Returns(None)]

\* One call wrapper(*args, **kwargs) in which func ends with func_outcome.
wrapper(table, w, args, kwargs, func_outcome) ==
    LET entry == [done |-> TRUE, ignore |-> w.ignore_exception,
                  at_decoration |-> w.at_decoration,
                  args |-> args, kwargs |-> kwargs,
                  func_outcome |-> func_outcome,
                  invoked |-> try_func(args, kwargs, func_outcome),
                  target |-> "none", hooks |-> <<>>, outcome |-> func_outcome]
    IN  IF func_outcome.kind = "return"
        THEN entry
        ELSE IF ~except_Exception(func_outcome.error)
        THEN entry
        ELSE IF ignore_exception(w)
        THEN [entry EXCEPT !.outcome = Returns(None)]
        ELSE LET impl == lookup_on_error(table, w)
                 h    == call_on_error(impl, func_outcome.error, w.func, args, kwargs)
             IN  [entry EXCEPT !.target = impl,
                               !.hooks = h.hooks,
                               \* on_error returned: the wrapper falls off its end
                               !.outcome = h.outcome]

NoWrapper ==
    [decorated |-> FALSE, cls |-> "ErrorHandler", ignore_exception |-> FALSE,
     func |-> TestFunc, at_decoration |-> "base"]

NoClass == [defined |-> FALSE, base |-> "ErrorHandler", on_error |-> "inherit"]

ErrInit ==
    /\ classes = [c \in ClassNames |->
                    IF c = "ErrorHandler"
                    THEN [defined |-> TRUE, base |-> "ErrorHandler", on_error |-> "base"]
                    ELSE NoClass]
    /\ wrapped = NoWrapper
    /\ call = NoCall
    /\ items = <<>> /\ conditions = <<>> /\ getPc = "done" /\ getResult = Return(None)
    /\ data = <<>> /\ decorations = <<>> /\ docCall = NoDocCall

\* class c(base): with or without an on_error of its own.
DefineSubclass(c, base, impl) ==
    /\ ~classes[c].defined
    /\ classes[base].defined
    /\ classes' = [classes EXCEPT ![c] = [defined |-> TRUE, base |-> base,
                                          on_error |-> impl]]
    /\ UNCHANGED <<wrapped, call>>

\* c.on_error = impl, an assignment to the class attribute.
ReplaceOnError(c, impl) ==
    /\ classes[c].defined
    /\ classes[c].on_error # impl
    /\ classes' = [classes EXCEPT ![c].on_error = impl]
    /\ UNCHANGED <<wrapped, call>>

\* @c.error_handling(ignore_exception=flag) applied to the function test.
Decorate(c, flag) ==
    /\ classes[c].defined
    /\ wrapped' = [decorated |-> TRUE, cls |-> c, ignore_exception |-> flag,
                   func |-> TestFunc, at_decoration |-> Lookup(classes, c)]
    /\ UNCHANGED <<classes, call>>

KwNames == {"error", "c"}
KwValue == 5
FuncOutcomes == {Returns(7)} \cup { Raises(e) : e \in FuncErrors }

CallWrapper(args, kwargs, func_outcome) ==
    /\ wrapped.decorated
    /\ call' = wrapper(classes, wrapped, args, kwargs, func_outcome)
    /\ UNCHANGED <<classes, wrapped>>

ErrNext ==
    \/ \E c \in ClassNames \ {"ErrorHandler"}, impl \in (OnErrorImpls \ {"base"}) \cup {"inherit"} :
          DefineSubclass(c, "ErrorHandler", impl) /\ UNCHANGED <<getVars, docVars>>
    \/ \E c \in ClassNames, impl \in OnErrorImpls :
          ReplaceOnError(c, impl) /\ UNCHANGED <<getVars, docVars>>
    \/ \E c \in ClassNames, flag \in BOOLEAN :
          Decorate(c, flag) /\ UNCHANGED <<getVars, docVars>>
    \/ \E n \in 0..MaxArgs, S \in SUBSET KwNames, o \in FuncOutcomes :
          CallWrapper([i \in 1..n |-> i], [x \in S |-> KwValue], o) /\ UNCHANGED <<getVars, docVars>>

SpecErr == ErrInit /\ [][ErrNext]_vars

(***************************************************************************)
(* SpecDocs: decorations through one registry, and calls of the results.   *)
(***************************************************************************)
DocsInit ==
    /\ data = <<>> /\ decorations = <<>> /\ docCall = NoDocCall
    /\ items = <<>> /\ conditions = <<>> /\ getPc = "done" /\ getResult = Return(None)
    /\ classes = [c \in ClassNames |-> NoClass] /\ wrapped = NoWrapper /\ call = NoCall

\* docs.register_doc(extra)(func): the entry is stored, a wrapper returned.
RegisterDoc(extra, func) ==
    /\ Len(decorations) < MaxDecorations
    /\ data' = SetItem(data, qualname(func), Content(doc(func), extra))
    /\ decorations' = Append(decorations, [func |-> func, extra |-> extra])
    /\ UNCHANGED docCall

\* A call of the wrapper the k-th decoration returned: return func(*args, **kwargs).
CallDecorated(k, arg) ==
    /\ k \in 1..Len(decorations)
    /\ docCall' = [done |-> TRUE, wrapper |-> WrapperBase + k, arg |-> arg,
                   reached |-> Original(decorations, WrapperBase + k)]
    /\ UNCHANGED <<data, decorations>>

DocsNext ==
    \/ \E extra \in Extras,
          func \in DocFuncs \cup { WrapperBase + k : k \in 1..Len(decorations) } :
          RegisterDoc(extra, func) /\ UNCHANGED <<getVars, errVars>>
    \/ \E k \in 1..MaxDecorations, arg \in {1} :
          CallDecorated(k, arg) /\ UNCHANGED <<getVars, errVars>>

SpecDocs == DocsInit /\ [][DocsNext]_vars

(***************************************************************************)
(* SpecGet: one call of get on every input within the bounds.              *)
(***************************************************************************)
Keys ==
    { <<"a", ".", "c">>, <<"b">>, <<"a">>, <<"c">>, <<"a", ".">> }

Expected == {1, 3, 4, 6, 201}

SeqsUpTo(S, n) == UNION { [1..m -> S] : m \in 0..n }

\* A dict has each key once.
CondMaps ==
    { s \in SeqsUpTo(Keys \X Expected, MaxConds) :
        \A i, j \in 1..Len(s) : i # j => s[i][1] # s[j][1] }

GetInit ==
    /\ items \in SeqsUpTo(Candidates, MaxItems)
    /\ conditions \in CondMaps
    /\ getPc = "ready"
    /\ getResult = Return(None)
    /\ classes = [c \in ClassNames |-> NoClass] /\ wrapped = NoWrapper /\ call = NoCall
    /\ data = <<>> /\ decorations = <<>> /\ docCall = NoDocCall

CallGet ==
    /\ getPc = "ready"
    /\ getResult' = get(items, conditions)
    /\ getPc' = "done"
    /\ UNCHANGED <<items, conditions>>
    /\ UNCHANGED <<errVars, docVars>>

GetNext == CallGet

SpecGet == GetInit /\ [][GetNext]_vars

(***************************************************************************)
(* What the claims about get speak of, stated on the original objects.     *)
(***************************************************************************)
\* The values the dotted path reaches from object o: one, or none when a
\* segment does not exist on the object reached so far.
RECURSIVE Deref(_, _)
Deref(o, segs) ==
    IF segs = <<>> THEN {o}
    ELSE IF o \in DOMAIN Heap /\ Head(segs) \in DOMAIN Heap[o]
         THEN Deref(Heap[o][Head(segs)], Tail(segs))
         ELSE {}

PathResolves(i, c) == Deref(items[i], split(conditions[c][1])) # {}

CondHolds(i, c) == conditions[c][2] \in Deref(items[i], split(conditions[c][1]))

AllResolve(i) == \A c \in 1..Len(conditions) : PathResolves(i, c)

SomePathMissing(i) == \E c \in 1..Len(conditions) : ~PathResolves(i, c)

FullMatch(i) == \A c \in 1..Len(conditions) : CondHolds(i, c)

\* Candidate i is examined when no earlier candidate satisfies everything.
Examined(i) == \A j \in 1..(i - 1) : ~FullMatch(j)

\* C1: when every path resolves on every candidate examined, get returns
\* the first candidate, in iteration order, on which every condition's
\* resolved value equals its expected value -- the candidate itself, not a
\* copy of it; with no conditions that is the first element; and when no
\* candidate satisfies all conditions get returns None and does not raise.
Thm_C1_GetFirstMatch ==
    (getPc = "done" /\ \A i \in 1..Len(items) : Examined(i) => AllResolve(i))
    => IF \E i \in 1..Len(items) : FullMatch(i)
       THEN \E i \in 1..Len(items) :
               /\ FullMatch(i)
               /\ Examined(i)
               /\ getResult = Return(items[i])
               /\ getResult.value \in Candidates
       ELSE getResult = Return(None)

\* The second docstring sample: the match is the second candidate.
Wit_C1_GetFirstMatch ==
    /\ getPc = "done"
    /\ \A i \in 1..Len(items) : AllResolve(i)
    /\ Len(items) = 2
    /\ Len(conditions) = 2
    /\ ~FullMatch(1)
    /\ FullMatch(2)
    /\ getResult = Return(items[2])

\* C2: a path segment missing on a candidate that get examines makes the
\* call fail with AttributeError, whatever the candidate's other conditions
\* and whatever the later candidates are; get returns a candidate only when
\* it satisfies everything and no candidate up to it has a missing path.
Thm_C2_GetMissingPathRaises ==
    getPc = "done" =>
      /\ (\E i \in 1..Len(items) : SomePathMissing(i) /\ Examined(i))
            => getResult = Raise("AttributeError")
      /\ (getResult.kind = "return" /\ getResult.value # None)
            => \E j \in 1..Len(items) :
                  /\ getResult.value = items[j]
                  /\ FullMatch(j)
                  /\ \A i \in 1..j : ~SomePathMissing(i)

\* The failing candidate has an earlier condition that is already false,
\* and the candidate after it satisfies every condition.
Wit_C2_GetMissingPathRaises ==
    /\ getPc = "done"
    /\ Len(items) = 2
    /\ Len(conditions) = 2
    /\ PathResolves(1, 1) /\ ~CondHolds(1, 1)
    /\ ~PathResolves(1, 2)
    /\ FullMatch(2)
    /\ getResult = Raise("AttributeError")

(***************************************************************************)
(* The claims about ErrorHandler.error_handling, checked under SpecErr.    *)
(***************************************************************************)
FuncRaised == call.done /\ call.func_outcome.kind = "raise"

RaisedException ==
    FuncRaised /\ ErrorObjects[call.func_outcome.error].type \in ExceptionTypes

\* C3, as claimed: with ignore_exception=True, whatever failure the wrapped
\* function raises, the wrapper returns None, nothing escapes and on_error
\* is not invoked.
Cex_C3_IgnoreSwallowsAny ==
    (FuncRaised /\ call.ignore)
    => call.outcome = Returns(None) /\ call.hooks = <<>> /\ call.target = "none"

\* C3, amended: with ignore_exception=True, every failure that derives from
\* Exception is swallowed -- the wrapper returns None, nothing escapes and
\* on_error is not invoked; a failure that derives from BaseException only
\* is not caught and escapes unchanged.
Thm_C3_IgnoreSwallowsExceptions ==
    (FuncRaised /\ call.ignore)
    => /\ call.hooks = <<>> /\ call.target = "none"
       /\ call.outcome = IF RaisedException THEN Returns(None) ELSE call.func_outcome

Wit_C3_IgnoreSwallowsExceptions ==
    /\ RaisedException /\ call.ignore
    /\ call.outcome = Returns(None)
    /\ Len(call.invoked) = 1

\* C4: with ignore_exception=False and the default on_error, the failure
\* the wrapped function raised -- the identical error object -- escapes to
\* the wrapper's caller, for every combination of positional and keyword
\* call arguments.
Cex_C4_DefaultReraisesSame ==
    (FuncRaised /\ ~call.ignore /\ call.target \in {"none", "base"})
    => call.outcome = Raises(call.func_outcome.error)

\* C5, for calls with positional arguments only whose function raises an
\* Exception: with ignore_exception=False the on_error of the policy class
\* is invoked exactly once, and receives the raised error as error, the
\* wrapped function as func and the call's arguments as the rest.
Cex_C5_HookReceivesErrorFuncArgs ==
    (RaisedException /\ ~call.ignore /\ DOMAIN call.kwargs = {})
    => /\ Len(call.hooks) = 1
       /\ call.hooks[1].impl = call.target
       /\ call.hooks[1].error = call.func_outcome.error
       /\ call.hooks[1].func = TestFunc
       /\ call.hooks[1].args = call.args
       /\ DOMAIN call.hooks[1].kwargs = {}

\* C6, for a wrapped function that raises an Exception: when the on_error
\* of the policy class is an override that raises a different failure,
\* that different failure, and no other, escapes to the wrapper's caller.
Cex_C6_OverrideFailureEscapes ==
    (RaisedException /\ ~call.ignore
        /\ call.target \in {"raise_other", "sample_raise_other"})
    => call.outcome = Raises(OtherError)

Cex_C10_OnErrorBoundAtDecoration ==
    (call.done /\ call.target # "none") => call.target = call.at_decoration

DefinesSubclass == \E c \in ClassNames : ~classes[c].defined /\ classes'[c].defined

\* C10, amended: the ignore_exception flag and the policy class are fixed
\* when the decorator is applied, and defining further subclasses changes
\* nothing for the wrapped function; the on_error that handles a failure
\* is the one the policy class resolves when the failing call is made.
Thm_C10_OnErrorLookedUpPerCall ==
    [][ /\ (call' # call)
           => /\ call'.ignore = wrapped.ignore_exception
              /\ call'.target \in {"none", Lookup(classes, wrapped.cls)}
              /\ (call'.target = "none")
                    <=> \/ call'.func_outcome.kind = "return"
                        \/ ErrorObjects[call'.func_outcome.error].type \notin ExceptionTypes
                        \/ wrapped.ignore_exception
        /\ (DefinesSubclass /\ wrapped.decorated)
           => /\ wrapped' = wrapped
              /\ Lookup(classes', wrapped.cls) = Lookup(classes, wrapped.cls)
      ]_vars

\* A failure handled by an on_error that replaced the one of decoration time.
Wit_C10_OnErrorLookedUpPerCall ==
    /\ call.done
    /\ call.target # "none"
    /\ call.target # call.at_decoration
    /\ Len(call.hooks) = 1

(***************************************************************************)
(* The claims about Docs.register_doc, checked under SpecDocs.             *)
(***************************************************************************)
Decorated(f) == \E k \in 1..Len(decorations) : decorations[k].func = f

\* The latest application of the decorator to one of the functions in F.
Latest(F) ==
    CHOOSE k \in 1..Len(decorations) :
        /\ decorations[k].func \in F
        /\ \A m \in (k + 1)..Len(decorations) : decorations[m].func \notin F

OwnContent(f) == Content(Functions[f].doc, decorations[Latest({f})].extra)

\* The key the amendment of C9 speaks of: enclosing classes, then the name.
ClassQualified(f) == Functions[f].scope \o <<Functions[f].name>>

\* C8: when function f alone has been decorated through the registry, once
\* or again with a different extra (directly, or by decorating what the
\* earlier decorator returned), the registry holds exactly one entry, under
\* f's qualified name, with f's doc string and the extra of the latest
\* decoration -- whether or not f has been called.
Cex_C8_OneEntryLatestExtra ==
    \A f \in DocFuncs :
        (/\ decorations # <<>>
         /\ \A k \in 1..Len(decorations) : Original(decorations, decorations[k].func) = f
         /\ \A k \in 2..Len(decorations) : decorations[k].extra # decorations[k - 1].extra)
        => /\ Cardinality(DOMAIN data) = 1
           /\ ClassQualified(f) \in DOMAIN data
           /\ data[ClassQualified(f)]
                 = Content(Functions[f].doc, decorations[Len(decorations)].extra)

\* C9, as claimed: two functions with the same bare name defined in
\* different scopes (modules, classes, or module level and class), both
\* registered, have two distinct entries, each with its own function's
\* description and extra.
Cex_C9_ScopesNeverCollide ==
    \A f, g \in DocFuncs :
        (f # g /\ Decorated(f) /\ Decorated(g))
        => \E kf, kg \in DOMAIN data :
              kf # kg /\ data[kf] = OwnContent(f) /\ data[kg] = OwnContent(g)

\* C9, amended: keys are class-qualified and not module-qualified.  Every
\* registered function has an entry under its class-qualified name, which
\* holds the description and extra of the latest registration under that
\* name; functions of different classes (or one in a class and one at
\* module level) have distinct entries, and functions of the same name and
\* class path in different modules share one.
Thm_C9_ClassQualifiedKeys ==
    \A f \in DocFuncs : Decorated(f) =>
        /\ ClassQualified(f) \in DOMAIN data
        /\ LET last == Latest({ g \in DocFuncs : ClassQualified(g) = ClassQualified(f) })
           IN  data[ClassQualified(f)]
                  = Content(Functions[decorations[last].func].doc, decorations[last].extra)
        /\ \A g \in DocFuncs :
              (Decorated(g) /\ Functions[g].scope # Functions[f].scope)
              => /\ ClassQualified(g) \in DOMAIN data
                 /\ ClassQualified(g) # ClassQualified(f)

\* A module-level function and a method of the same bare name, both
\* registered, each with its own entry; and a same-named function of
\* another module registered over the first.
Wit_C9_ClassQualifiedKeys ==
    /\ Len(decorations) = 3
    /\ decorations[1].func = 1 /\ decorations[2].func = 3 /\ decorations[3].func = 2
    /\ data[<<"K", "func">>] = Content("D3", decorations[2].extra)
    /\ data[<<"func">>] = Content("D2", decorations[3].extra)
    /\ Cardinality(DOMAIN data) = 2

=============================================================================
